---- MODULE Spec2Model ----
(***************************************************************************)
(* Model of the code-optimizer bot's transformation core (src/bot.py):     *)
(* the syntax repair pass, the safe_process wrapper, the twelve registered *)
(* operations and the dispatcher's delivery of their results.              *)
(*                                                                         *)
(* Source text is modelled as the list  code.split('\n')  of its physical  *)
(* lines.  A line is a record that keeps exactly the features the code and *)
(* the Python grammar look at:                                             *)
(*    ind    leading whitespace, in units of four spaces                   *)
(*    kind   what the stripped line is (see the kinds below)              *)
(*    paren  the line contains '(' and ')'                                 *)
(*    colon  the code part of the line ends with ':'                       *)
(*    bs     the code part ends with a line-continuation backslash         *)
(*    cmt    an inline comment  "# c"  follows the code part               *)
(*    trail  the line ends with whitespace                                 *)
(* so the line reads  <ind><core>[:][ \][ # c][ ]                          *)
(***************************************************************************)
EXTENDS Integers, Sequences, FiniteSets, TLC

\* ------------------------------------------------------------------ bounds
\* Longest submitted text, in physical lines.
MaxLines == 3

\* ------------------------------------------------------------------- lines
L(ind, kind, paren, colon) ==
    [ind |-> ind, kind |-> kind, paren |-> paren, colon |-> colon,
     bs |-> FALSE, cmt |-> FALSE, trail |-> FALSE]

Empty == L(0, "blank", FALSE, FALSE)

\* Kinds of simple statement (one logical line, no block).
\*   stmt   x = 1                num    1            str   "d"
\*   pass   pass                 ret    return 1     imp   import m
\*   future from __future__ import annotations
\*   call   print(f'Error: {e}') (handler boilerplate)
SimpleKinds == {"stmt", "num", "str", "pass", "ret", "imp", "future", "call"}

\* Kinds of block header.
\*   if  if x / if (x)      else  else        def  def f()
\*   adef async def f()     class class A     try  try
\*   except  except Exception as e
HeaderKinds == {"if", "else", "def", "adef", "class", "try", "except"}

\* Lines that are no Python at all: the texts the bot itself produces.
\*   advisory    "⚠️ Auto-fixed syntax errors"
\*   unavail     "⚠️ <tool> not installed"
\*   failsyntax  "❌ Syntax Error: <parser message>"
\*   failerror   "❌ Error: <exception message>"
\*   failtool    "❌ <tool> error: <tool message>"
\*   failstats   "❌ Stats error: <exception message>"
\*   nocode      "❌ No code found. Please send code first!"
\*   unknown     "❌ Unknown operation"
\*   tip         "💡 ..." and the other prose lines of a report
\*   ok          "✅ ..."
\*   heading     "📊 Code Statistics" and the count lines under it
\*   complexity  "🧮 Avg Complexity: ..."
FailKinds == {"failsyntax", "failerror", "failtool", "failstats", "nocode", "unknown"}

MessageKinds ==
    FailKinds \cup {"advisory", "unavail", "tip", "ok", "heading", "complexity"}

\* comment "# c" alone on the line; blank: nothing but whitespace;
\* open: "x = (" with the parenthesis never closed.
OtherKinds == {"comment", "blank", "open"}

\* ---------------------------------------------------------- str methods
\* line.strip(): leading and trailing whitespace removed.
strip(l) == [l EXCEPT !.ind = 0, !.trail = FALSE]

\* line.rstrip(): trailing whitespace removed; a whitespace-only line
\* becomes the empty string.
rstrip(l) == IF l.kind = "blank" THEN Empty ELSE [l EXCEPT !.trail = FALSE]

\* stripped.endswith(':')
EndsWithColon(l) == l.colon /\ ~l.cmt /\ ~l.bs

\* stripped.endswith('\\')
EndsWithBackslash(l) == l.bs /\ ~l.cmt

\* stripped.startswith('#')
StartsWithHash(l) == l.kind = "comment"

\* '(' in stripped and ')' in stripped
HasParens(l) == l.paren

\* line + ':' -- the colon lands at the very end of the line: inside the
\* inline comment when there is one, after the trailing whitespace otherwise.
AddColon(l) == IF l.cmt THEN l ELSE [l EXCEPT !.colon = TRUE, !.trail = FALSE]

\* "    " + line
Indent4(l) == [l EXCEPT !.ind = @ + 1]

\* code.split('\n') is the text itself; code.splitlines() drops the empty
\* string that split leaves after a final newline ("" has no lines at all).
splitlines(text) ==
    IF text[Len(text)] = Empty THEN SubSeq(text, 1, Len(text) - 1) ELSE text

\* '\n'.join(lines); joining no lines gives the empty string.
join(lines) == IF lines = <<>> THEN <<Empty>> ELSE lines

\* text + '\n'
WithNewline(text) == Append(text, Empty)

\* a message line, as a text of its own
Msg(kind) == L(0, kind, FALSE, FALSE)

\* bool(result): the empty string is falsy.
IsEmptyText(text) == text = <<Empty>>

\* result.startswith('❌')
StartsWithFail(text) == text[1].kind \in FailKinds /\ text[1].ind = 0

\* result.startswith('⚠️'): the repair advisory and the "not installed"
\* notices begin with the same glyph.
StartsWithWarn(text) == text[1].kind \in {"advisory", "unavail"} /\ text[1].ind = 0

RECURSIVE MinInd(_)
\* Smallest indentation among the lines that have content (-1 when none has).
MinInd(lines) ==
    IF lines = <<>> THEN -1
    ELSE LET rest == MinInd(Tail(lines))
             h == Head(lines)
         IN IF h.kind = "blank" THEN rest
            ELSE IF rest = -1 \/ h.ind < rest THEN h.ind ELSE rest

\* textwrap.dedent(text): whitespace-only lines are emptied, then the margin
\* common to all other lines is removed.
dedent(text) ==
    LET m == MinInd(text)
        Cut(l) == IF l.kind = "blank" THEN Empty
                  ELSE [l EXCEPT !.ind = @ - (IF m > 0 THEN m ELSE 0)]
    IN [i \in 1..Len(text) |-> Cut(text[i])]

\* ------------------------------------------------------------ the parser
\* What compile() and ast.parse() decide, for texts made of the lines above.
\* The parser reads the physical lines in order, keeps the tokenizer's stack
\* of open indentation levels (one frame per open block) and stops at the
\* first error.  Its result is the statement list of the program in source
\* order, each statement with the depth of the block it stands in: the
\* parse tree, flattened.
\*
\* err is the class of the first error:
\*   colon     a block header without its ':'
\*   indent    IndentationError (unexpected indent, expected an indented
\*             block, unindent does not match)
\*   contchar  "unexpected character after line continuation character"
\*   syntax    a SyntaxError reported as plain "invalid syntax"
\*   named     a SyntaxError with a wording of its own ("'(' was never
\*             closed", "invalid character", "'return' outside function" ...)
Frame(ind, owner) == [ind |-> ind, last |-> "none", owner |-> owner]

ParseStart ==
    [stack |-> <<Frame(0, "module")>>, expect |-> "none", out |-> <<>>,
     err |-> "none", cont |-> FALSE]

Top(st) == st.stack[Len(st.stack)]

Fail(st, e) == [st EXCEPT !.err = e]

RECURSIVE PopTo(_, _)
\* DEDENT tokens: close every block indented deeper than ind.  A try block
\* may not be closed before its except clause.
PopTo(st, ind) ==
    IF Top(st).ind <= ind \/ Len(st.stack) = 1 THEN st
    ELSE IF Top(st).last = "try" THEN Fail(st, "named")
    ELSE PopTo([st EXCEPT !.stack = SubSeq(@, 1, Len(@) - 1)], ind)

\* Which statement may precede an else / except clause at the same level.
ClauseFollows(kind, last) ==
    CASE kind = "else" -> last \in {"if", "except"}
      [] kind = "except" -> last \in {"try", "except"}
      [] OTHER -> TRUE

\* One statement whose first line is l, in the block on top of the stack.
Statement(st, l) ==
    LET last == Top(st).last
        node == [depth |-> Len(st.stack) - 1, kind |-> l.kind]
        done == [st EXCEPT !.stack[Len(st.stack)].last = l.kind,
                           !.out = Append(@, node)]
    IN IF last = "try" /\ l.kind # "except" THEN Fail(st, "named")
       ELSE IF l.kind \in SimpleKinds
            THEN IF l.colon THEN Fail(st, "syntax")
                 ELSE [done EXCEPT !.cont = l.bs]
       ELSE IF l.kind \in HeaderKinds
            THEN IF ~ClauseFollows(l.kind, last) \/ l.bs THEN Fail(st, "syntax")
                 ELSE IF ~l.colon THEN Fail(st, "colon")
                 ELSE [done EXCEPT !.expect = l.kind]
       \* an unclosed parenthesis, or a line that is no Python
       ELSE Fail(st, "named")

\* One physical line.
ParseLine(st, l) ==
    IF st.err # "none" THEN st
    ELSE IF st.cont
         \* the line continues  "x = 1 + \": it has to finish the expression
         THEN IF l.bs /\ (l.trail \/ l.cmt) THEN Fail(st, "contchar")
              ELSE IF l.kind \in {"num", "str", "call"} /\ ~l.colon /\ ~l.bs
              THEN [st EXCEPT !.cont = FALSE]
              ELSE IF l.kind \in MessageKinds \/ l.kind = "open"
                      \/ (l.kind = "stmt" /\ ~l.colon)
              THEN Fail(st, "named")
              ELSE Fail(st, "syntax")
    ELSE IF l.kind \in {"blank", "comment"} THEN st
    ELSE IF l.bs /\ (l.trail \/ l.cmt) THEN Fail(st, "contchar")
    ELSE IF st.expect # "none"
         THEN IF l.ind > Top(st).ind
              THEN Statement([st EXCEPT !.stack = Append(@, Frame(l.ind, st.expect)),
                                        !.expect = "none"], l)
              ELSE Fail(st, "indent")
    ELSE IF l.ind > Top(st).ind THEN Fail(st, "indent")
    ELSE LET p == PopTo(st, l.ind)
         IN IF p.err # "none" THEN p
            ELSE IF Top(p).ind # l.ind THEN Fail(p, "indent")
            ELSE Statement(p, l)

RECURSIVE ParseLines(_, _, _)
ParseLines(st, text, i) ==
    IF i > Len(text) THEN st ELSE ParseLines(ParseLine(st, text[i]), text, i + 1)

\* End of file: nothing may be left open.
ParseEnd(st) ==
    IF st.err # "none" THEN st
    ELSE IF st.cont THEN Fail(st, "named")
    ELSE IF st.expect # "none" THEN Fail(st, "indent")
    ELSE IF \E k \in 1..Len(st.stack) : st.stack[k].last = "try" THEN Fail(st, "named")
    ELSE st

\* ast.parse(code): the statement list, or the error.
\* What the parser hands back from its final state.
ParseResult(st) == [err |-> st.err, body |-> IF st.err = "none" THEN st.out ELSE <<>>]

ast_parse(text) == ParseResult(ParseEnd(ParseLines(ParseStart, text, 1)))

\* The statements of a parse tree that compile() rejects although the
\* grammar accepts them.
RECURSIVE Scope(_, _, _)
\* The function or class whose body holds statement i ("module" when none):
\* walk back to the nearest header of a shallower block until one is a
\* definition.  d is the depth still to get under, j the statement examined.
Scope(body, j, d) ==
    IF j = 0 \/ d = 0 THEN "module"
    ELSE IF body[j].depth < d
         THEN IF body[j].kind \in {"def", "adef", "class"} THEN body[j].kind
              ELSE Scope(body, j - 1, body[j].depth)
    ELSE Scope(body, j - 1, d)

\* 'return' outside function
ReturnOutside(body, i) ==
    body[i].kind = "ret" /\ Scope(body, i - 1, body[i].depth) \notin {"def", "adef"}

\* from __future__ imports must occur at the beginning of the file: only
\* the module docstring and other __future__ imports may come first.
FutureLate(body, i) ==
    /\ body[i].kind = "future"
    /\ \/ body[i].depth > 0
       \/ \E j \in 1..(i - 1) :
             ~(body[j].kind = "future" \/ (j = 1 /\ body[j].kind = "str"))

\* compile(code, '<string>', 'exec'): the parse, then the compiler's checks.
CompileTree(t) ==
    IF t.err # "none" THEN t.err
    ELSE IF \E i \in 1..Len(t.body) : ReturnOutside(t.body, i) \/ FutureLate(t.body, i)
         THEN "named"
    ELSE "none"

compile(text) == CompileTree(ast_parse(text))

\* ast.unparse(tree): one line per statement, four spaces per depth, the
\* condition of an if without its redundant parentheses, and an empty line
\* before every definition that is not the first line of the output.
CanonParen(kind) == kind \in {"def", "adef", "call"}

RECURSIVE UnparseFrom(_, _)
UnparseFrom(body, i) ==
    IF i > Len(body) THEN <<>>
    ELSE LET n == body[i]
             line == L(n.depth, n.kind, CanonParen(n.kind), n.kind \in HeaderKinds)
         IN (IF n.kind \in {"def", "adef", "class"} /\ i > 1
             THEN <<Empty, line>> ELSE <<line>>) \o UnparseFrom(body, i + 1)

ast_unparse(body) == join(UnparseFrom(body, 1))

\* ------------------------------------------------------- the repair pass
\* The keywords fix_syntax_errors looks for at the start of a stripped line.
KeywordList ==
    <<"if ", "elif ", "else", "for ", "while ", "def ", "class ", "try",
      "except", "finally", "with ">>

\* The keyword text a stripped line of each kind starts with ("async def"
\* starts with none of them).
Prefix(l) ==
    CASE l.kind = "if" -> "if "
      [] l.kind = "else" -> "else"
      [] l.kind = "def" -> "def "
      [] l.kind = "class" -> "class "
      [] l.kind = "try" -> "try"
      [] l.kind = "except" -> "except"
      [] OTHER -> ""

\* for keyword in [...]: if stripped.startswith(keyword): ...; break
MissingColonLine(l) ==
    LET stripped == strip(l)
    IN IF stripped.kind # "blank" /\ ~EndsWithColon(stripped) /\ ~EndsWithBackslash(stripped)
          /\ \E k \in 1..Len(KeywordList) : Prefix(stripped) = KeywordList[k]
       THEN IF Prefix(stripped) \in {"else", "try", "finally"} THEN AddColon(l)
            ELSE IF HasParens(stripped) THEN AddColon(l)
            ELSE l
       ELSE l

\* "invalid syntax" in str(e).lower().  The wording is the interpreter's: up
\* to Python 3.9 a missing ':' is reported as "invalid syntax", from 3.10 on
\* as "expected ':'" (legacy says which interpreter runs the bot).
\* Indentation and continuation errors have their own wording in both.
SaysInvalidSyntax(err, legacy) == err = "syntax" \/ (err = "colon" /\ legacy)

\* fix_syntax_errors(code) -> (code, fix_msg); msg is TRUE when the advisory
\* "⚠️ Auto-fixed syntax errors" is returned.
\* The except branch's first step: the colon pass, run only when the
\* message says "invalid syntax".
AddColons(code, e, legacy) ==
    IF SaysInvalidSyntax(e, legacy)
    THEN [i \in 1..Len(code) |-> MissingColonLine(code[i])]
    ELSE code

\* '\n'.join(line.rstrip() for line in fixed_code.split('\n'))
RstripLines(text) == [i \in 1..Len(text) |-> rstrip(text[i])]

\* Recompile without its compile: a repair that trusts its own edits.
RecompileUnchecked(code, fixed) == [code |-> fixed, msg |-> TRUE]

\* The last step: compile(fixed_code), and the pair returned.
Recompile(code, fixed) ==
    IF compile(fixed) = "none" THEN [code |-> fixed, msg |-> TRUE]
    ELSE [code |-> code, msg |-> FALSE]

\* The body of fix_syntax_errors once compile(code) gave e.
Repair(code, e, legacy) ==
    IF e = "none" THEN [code |-> code, msg |-> FALSE]
    ELSE Recompile(code, RstripLines(dedent(AddColons(code, e, legacy))))

fix_syntax_errors(code, legacy) == Repair(code, compile(code), legacy)

\* ------------------------------------------------------- the transforms
\* What a decorated function does with its argument: the text it returns,
\* or the exception it raises ("none" when it returns).
Returns(text) == [exc |-> "none", text |-> text]

Raises(exc) == [exc |-> exc, text |-> <<Empty>>]

KeepsContent(l) == strip(l).kind # "blank" /\ ~StartsWithHash(strip(l))

RECURSIVE CleanLines(_)
CleanLines(lines) ==
    IF lines = <<>> THEN <<>>
    ELSE (IF KeepsContent(Head(lines)) THEN <<rstrip(Head(lines))>> ELSE <<>>)
         \o CleanLines(Tail(lines))

\* remove_comments with a parse in front, as the tree transforms have.
remove_comments_parsing(code) ==
    IF ast_parse(code).err # "none" THEN Raises("SyntaxError")
    ELSE Returns(Append(CleanLines(splitlines(code)), Empty))

\* remove_comments, undecorated: full-line comments and blank lines go.
remove_comments_body(code) ==
    LET clean_lines == CleanLines(splitlines(code))
    IN Returns(IF clean_lines = <<>> THEN <<Empty>> ELSE Append(clean_lines, Empty))

\* isinstance(stmt, ast.Expr) and isinstance(stmt.value, (ast.Str, ast.Constant)):
\* a bare constant of any type, not only a string.
IsConstantExpr(n) == n.kind \in {"str", "num"}

IsDefinition(n) == n.kind \in {"def", "adef", "class"}

\* Statement j is body[0] of the definition right before it.
FirstOfDefinition(body, j) == j > 1 /\ IsDefinition(body[j - 1])

\* Statement j is the only statement of the block it stands in, given that
\* it is the first one.
OnlyStatement(body, j) == j = Len(body) \/ body[j + 1].depth < body[j].depth

RECURSIVE RemoveFrom(_, _, _)
\* The NodeTransformer's visit: node.body.pop(0) for every definition whose
\* body starts with a constant expression, [ast.Pass()] when that empties
\* the body; with module set, visit_Module pops the module's as well.
RemoveFrom(body, j, module) ==
    IF j > Len(body) THEN <<>>
    ELSE LET n == body[j]
             rest == RemoveFrom(body, j + 1, module)
         IN IF IsConstantExpr(n) /\ FirstOfDefinition(body, j)
            THEN IF OnlyStatement(body, j)
                 THEN <<[n EXCEPT !.kind = "pass"]>> \o rest
                 ELSE rest
            ELSE IF IsConstantExpr(n) /\ j = 1 /\ module THEN rest
            ELSE <<n>> \o rest

\* remove_docstrings, undecorated (DocstringRemover has no visit_Module).
DocstringRemover(tree) ==
    IF tree.err # "none" THEN Raises("SyntaxError")
    ELSE Returns(ast_unparse(RemoveFrom(tree.body, 1, FALSE)))

remove_docstrings_body(code) == DocstringRemover(ast_parse(code))

\* The inline-comment scan of minify_code on one line: cut at the first '#'
\* outside a string literal.
CutComment(l) ==
    IF l.kind = "comment" THEN [Empty EXCEPT !.ind = l.ind]
    ELSE IF l.cmt THEN [l EXCEPT !.cmt = FALSE, !.trail = TRUE]
    ELSE l

RECURSIVE MinifyLines(_)
MinifyLines(lines) ==
    IF lines = <<>> THEN <<>>
    ELSE LET stripped == rstrip(CutComment(Head(lines)))
         IN (IF stripped # Empty THEN <<stripped>> ELSE <<>>) \o MinifyLines(Tail(lines))

RECURSIVE CollapseFrom(_, _)
\* re.sub(r'\n\s*\n\s*\n+', '\n\n', text): between the first and the last
\* line of the text, two or more blank lines in a row become one empty line.
CollapseFrom(text, i) ==
    LET Inner(k) == 1 < k /\ k < Len(text) /\ text[k].kind = "blank"
    IN IF i > Len(text) THEN <<>>
       ELSE (IF Inner(i) /\ Inner(i - 1) THEN <<>>
             ELSE IF Inner(i) /\ Inner(i + 1) THEN <<Empty>>
             ELSE <<text[i]>>) \o CollapseFrom(text, i + 1)

CollapseBlank(text) == CollapseFrom(text, 1)

RECURSIVE StripText(_)
\* text.strip(): leading and trailing whitespace of the whole text.
StripText(text) ==
    IF Len(text) > 1 /\ text[1].kind = "blank" THEN StripText(Tail(text))
    ELSE IF Len(text) > 1 /\ text[Len(text)].kind = "blank"
         THEN StripText(SubSeq(text, 1, Len(text) - 1))
    ELSE IF Len(text) = 1 THEN <<rstrip(strip(text[1]))>>
    ELSE <<[text[1] EXCEPT !.ind = 0]>> \o SubSeq(text, 2, Len(text) - 1)
         \o <<rstrip(text[Len(text)])>>

\* minify_code, undecorated.
\* The part of minify_code from the tree of the comment-free text on.
Minifier(tree) ==
    IF tree.err # "none" THEN Raises("SyntaxError")
    ELSE Returns(WithNewline(StripText(CollapseBlank(
                    ast_unparse(RemoveFrom(tree.body, 1, TRUE))))))

minify_code_body(code) == Minifier(ast_parse(join(MinifyLines(splitlines(code)))))

\* The three textual try/except wrappers share their loop:
\*   for line in code.splitlines(): wrapped += "    " + line + "\n"
IndentedBody(code) ==
    LET lines == splitlines(code)
    IN [i \in 1..Len(lines) |-> Indent4(lines[i])]

TryLine == L(0, "try", FALSE, TRUE)

ExceptLine == L(0, "except", FALSE, TRUE)

CallLine(ind) == L(ind, "call", TRUE, FALSE)

\* add_try_except, undecorated.
add_try_except_body(code) ==
    Returns(<<TryLine>> \o IndentedBody(code) \o <<ExceptLine, CallLine(1), Empty>>)

\* add_try_except_detailed, undecorated: "import traceback", an empty line,
\* the block, and a handler of two calls.
add_try_except_detailed_body(code) ==
    Returns(<<L(0, "imp", FALSE, FALSE), Empty, TryLine>> \o IndentedBody(code)
            \o <<ExceptLine, CallLine(1), CallLine(1), Empty>>)

\* add_try_except_logging, undecorated: two imports, the logging set-up
\* (a call and an assignment), the block, and a handler of two calls.
add_try_except_logging_body(code) ==
    Returns(<<L(0, "imp", FALSE, FALSE), L(0, "imp", FALSE, FALSE), Empty,
              CallLine(0), L(0, "stmt", FALSE, FALSE), Empty, TryLine>>
            \o IndentedBody(code)
            \o <<ExceptLine, CallLine(1), CallLine(1), Empty>>)

RECURSIVE BodyEnd(_, _, _)
\* Index of the last statement of the block opened by the header at i.
BodyEnd(body, i, j) ==
    IF j < Len(body) /\ body[j + 1].depth > body[i].depth
    THEN BodyEnd(body, i, j + 1) ELSE j

Deeper(nodes) == [k \in 1..Len(nodes) |-> [nodes[k] EXCEPT !.depth = @ + 1]]

RECURSIVE WrapFrom(_, _, _)
\* FunctionWrapper: the body of every def and async def becomes one Try
\* whose handler prints; inner functions are wrapped before outer ones.
WrapFrom(body, i, last) ==
    IF i > last THEN <<>>
    ELSE LET n == body[i]
             e == BodyEnd(body, i, i)
         IN IF n.kind \in {"def", "adef"}
            THEN <<n, [depth |-> n.depth + 1, kind |-> "try"]>>
                 \o Deeper(WrapFrom(body, i + 1, e))
                 \o <<[depth |-> n.depth + 1, kind |-> "except"],
                      [depth |-> n.depth + 2, kind |-> "call"]>>
                 \o WrapFrom(body, e + 1, last)
            ELSE <<n>> \o WrapFrom(body, i + 1, last)

\* wrap_functions_try_except, undecorated.
FunctionWrapper(tree) ==
    IF tree.err # "none" THEN Raises("SyntaxError")
    ELSE Returns(ast_unparse(WrapFrom(tree.body, 1, Len(tree.body))))

wrap_functions_try_except_body(code) == FunctionWrapper(ast_parse(code))

\* An external formatter, seen from the bot: tool is what the call meets,
\*   missing  the import failed at start-up, the module global is None
\*   ok       the tool returns the formatted text
\*   raises   the tool raises (black does on text it cannot parse)
\* The formatted text itself is the tool's business; it is taken to be the
\* input with every line's trailing whitespace removed.
ToolStates == {"missing", "ok", "raises"}

Formatted(code) == [i \in 1..Len(code) |-> rstrip(code[i])]

\* beautify_code, black_format, sort_imports, undecorated: all three are
\*   if tool: try: return tool(code) / except: return "❌ <tool> error: ..."
\*   return "⚠️ <tool> not installed"
format_body(code, tool) ==
    CASE tool = "ok" -> Returns(Formatted(code))
      [] tool = "raises" -> Returns(<<Msg("failtool")>>)
      [] OTHER -> Returns(<<Msg("unavail")>>)

\* safe_process(func)(code): repair, call, prepend the advisory, and turn
\* whatever is raised into a failure text.  r is the repair's outcome and
\* out the function's on the repaired text.
FixNote == <<Msg("advisory"), Empty>>

SyntaxErrorText == <<Msg("failsyntax"), Empty, Msg("tip")>>

ErrorText == <<Msg("failerror")>>

\* The wrapper without its except clauses: what func returned or left.
safe_process_uncaught(r, out) ==
    IF r.msg /\ ~StartsWithFail(out.text) THEN FixNote \o out.text ELSE out.text

\* The wrapper without its look at the result's first character.
safe_process_noting(r, out) ==
    IF out.exc = "SyntaxError" THEN SyntaxErrorText
    ELSE IF out.exc # "none" THEN ErrorText
    ELSE IF r.msg THEN FixNote \o out.text
    ELSE out.text

safe_process(r, out) ==
    IF out.exc = "SyntaxError" THEN SyntaxErrorText
    ELSE IF out.exc # "none" THEN ErrorText
    ELSE IF r.msg /\ ~StartsWithFail(out.text) THEN FixNote \o out.text
    ELSE out.text

\* --------------------------------------------------------- the reporters
\* validate_syntax(code), from the repair's outcome r on.
validate_syntax(r) ==
    IF compile(r.code) = "none"
    THEN IF r.msg THEN <<Msg("advisory"), Msg("ok")>> ELSE <<Msg("ok")>>
    ELSE <<Msg("failsyntax"), Empty, Msg("tip"), Msg("tip"), Msg("tip"),
           Msg("tip"), Msg("tip")>>

\* sum(1 for n in ast.walk(tree) if isinstance(n, <types>))
CountKinds(body, kinds) == Cardinality({i \in 1..Len(body) : body[i].kind \in kinds})

\* sum(1 for l in code.splitlines() if l.strip().startswith('#'))
CountComments(lines) == Cardinality({i \in 1..Len(lines) : StartsWithHash(strip(lines[i]))})

NoCounts == [lines |-> 0, functions |-> 0, classes |-> 0, imports |-> 0, comments |-> 0]

\* The five numbers code_stats prints, from the original text and the tree
\* of the repaired one.
Counts(code, body) ==
    [lines |-> Len(splitlines(code)),
     functions |-> CountKinds(body, {"def"}),
     classes |-> CountKinds(body, {"class"}),
     imports |-> CountKinds(body, {"imp", "future"}),
     comments |-> CountComments(splitlines(code))]

\* code_stats(code): the report text.  analyzer is what the call of
\* radon's cc_visit meets (missing: rcc is None); when it raises, the
\* complexity line is silently left out.
StatsReport(analyzer) ==
    <<Msg("heading"), Empty, Msg("heading"), Msg("heading"),
      Msg("heading"), Msg("heading"), Msg("heading")>>
    \o (IF analyzer = "ok" THEN <<Msg("complexity")>> ELSE <<>>)
    \o <<Empty>>

code_stats(code, r, analyzer) ==
    IF ast_parse(r.code).err # "none" THEN <<Msg("failstats"), Empty, Msg("tip")>>
    ELSE IF r.msg THEN FixNote \o StatsReport(analyzer)
    ELSE StatsReport(analyzer)

\* ---------------------------------------------------------- the registry
\* operations = {'cleanup': remove_comments, ...} in button_callback
Transforms ==
    {"cleanup", "beautify", "black", "imports", "minify", "docstrings",
     "tryexcept_basic", "tryexcept_detailed", "tryexcept_logging",
     "tryexcept_functions"}

Formatters == {"beautify", "black", "imports"}

Reports == {"validate", "stats"}

Operations == Transforms \cup Reports

\* The undecorated function registered under a transform's identifier,
\* applied to code.
Body(op, code, tool) ==
    CASE op = "cleanup" -> remove_comments_body(code)
      [] op \in Formatters -> format_body(code, tool)
      [] op = "minify" -> minify_code_body(code)
      [] op = "docstrings" -> remove_docstrings_body(code)
      [] op = "tryexcept_basic" -> add_try_except_body(code)
      [] op = "tryexcept_detailed" -> add_try_except_detailed_body(code)
      [] op = "tryexcept_logging" -> add_try_except_logging_body(code)
      [] op = "tryexcept_functions" -> wrap_functions_try_except_body(code)

\* func(code) for a registered operation, from the repair's outcome r on:
\* the exception raised inside the function (caught or not), and the text
\* the call returns.
\* A decorated transform's call, from the undecorated function's outcome on.
Decorated(op, r, tool, out) ==
    [exc |-> IF op \in Formatters /\ tool = "raises" THEN "ToolError" ELSE out.exc,
     text |-> safe_process(r, out)]

\* A reporter's call, from its text on: the reporters catch what is raised
\* inside them and say so in the text's first line.
Reported(text, tool) ==
    [exc |-> IF StartsWithFail(text) THEN "SyntaxError"
             ELSE IF tool = "raises" THEN "AnalyzerError" ELSE "none",
     text |-> text]

Call(op, code, r, tool) ==
    CASE op = "validate" -> Reported(validate_syntax(r), "none")
      [] op = "stats" -> Reported(code_stats(code, r, tool), tool)
      [] OTHER -> Decorated(op, r, tool, Body(op, r.code, tool))

\* func(code): repair, then the function.
Apply(op, code, legacy, tool) ==
    Call(op, code, fix_syntax_errors(code, legacy), tool).text

\* ------------------------------------------------------------ the inputs
\* The lines a submitted file is made of; every text of up to MaxLines of
\* them is submitted.
B(l) == [l EXCEPT !.bs = TRUE]

C(l) == [l EXCEPT !.cmt = TRUE]

T(l) == [l EXCEPT !.trail = TRUE]

Alphabet ==
    { L(0, "stmt", FALSE, FALSE),        \* x = 1
      L(1, "stmt", FALSE, FALSE),        \*     x = 1
      C(L(0, "stmt", FALSE, FALSE)),     \* x = 1 # c
      T(B(L(0, "stmt", FALSE, FALSE))),  \* x = 1 + \  (whitespace after it)
      L(0, "str", FALSE, FALSE),         \* "d"
      L(1, "str", FALSE, FALSE),         \*     "d"
      L(2, "str", FALSE, FALSE),         \*         "d"
      L(1, "num", FALSE, FALSE),         \*     1
      L(1, "ret", FALSE, FALSE),         \*     return 1
      L(0, "future", FALSE, FALSE),      \* from __future__ import annotations
      L(1, "imp", FALSE, FALSE),         \*     import m
      L(1, "call", TRUE, FALSE),         \*     print(x)
      L(0, "def", TRUE, TRUE),           \* def f():
      L(1, "def", TRUE, TRUE),           \*     def f():
      L(0, "adef", TRUE, TRUE),          \* async def f():
      L(0, "class", FALSE, TRUE),        \* class A:
      L(0, "if", FALSE, FALSE),          \* if x
      L(0, "if", TRUE, FALSE),           \* if (x)
      L(0, "open", FALSE, FALSE),        \* x = (
      L(0, "comment", FALSE, FALSE),     \* # c
      Empty }

\* "x=1\nif x==1\n    print(x)\n", the documented example of a missing colon
\* for the repair pass; its last line ends in a newline.
MissingColonExample ==
    <<L(0, "stmt", FALSE, FALSE), L(0, "if", FALSE, FALSE), L(1, "call", TRUE, FALSE),
      Empty>>

Inputs == UNION {[1..n -> Alphabet] : n \in 1..MaxLines} \cup {MissingColonExample}

\* ------------------------------------------------------ the state machine
\* One chat session, from the upload of a file to the delivery of the
\* result of the operation chosen for it.
VARIABLES
    code,        \* context.user_data['code'], <<>> while there is none
    legacy,      \* the interpreter words a missing ':' as "invalid syntax"
    pc,          \* idle (no file yet), ready (menu shown), done
    operation,   \* query.data of the button pressed
    tool,        \* what the call of the operation's external tool met
    fixed_code,  \* the repair pass's text in the last invocation
    fix_msg,     \* ... and whether it gave the advisory
    raised,      \* the exception raised inside the registered function
    result,      \* func(code)
    shown,       \* the text the menu message ends up showing
    file,        \* the document sent, <<>> when none
    stats,       \* the numbers code_stats computed
    original_size,  \* len(code) in the caption of the document sent
    new_size,       \* len(result) there
    reduced         \* the caption's "Reduced by" figure in tenths of a
                    \* percent, <<>> when the caption has no such line

\* The caption's figures.  A line record does not keep the number of its
\* characters, so the lengths are no function of code and result here: the
\* caption is computed where the two lengths are the inputs (SizeSpec).
sizes == <<original_size, new_size, reduced>>

vars ==
    <<code, legacy, pc, operation, tool, fixed_code, fix_msg, raised, result,
      shown, file, stats, original_size, new_size, reduced>>

NoText == <<>>

Init ==
    /\ code = NoText
    /\ legacy \in BOOLEAN
    /\ pc = "idle"
    /\ operation = "none"
    /\ tool = "none"
    /\ fixed_code = NoText
    /\ fix_msg = FALSE
    /\ raised = "none"
    /\ result = NoText
    /\ shown = NoText
    /\ file = NoText
    /\ stats = NoCounts
    /\ original_size = 0
    /\ new_size = 0
    /\ reduced = <<>>

\* handle_document: the uploaded file's text becomes the session's code.
handle_document(text) ==
    /\ pc = "idle"
    /\ code' = text
    /\ pc' = "ready"
    /\ UNCHANGED <<legacy, operation, tool, fixed_code, fix_msg, raised, result,
                   shown, file, stats, sizes>>

\* query.edit_message_text(text); Telegram refuses an empty message text,
\* which raises into button_callback's handler: "❌ Error: ...".
EditMessage(text) == IF IsEmptyText(text) THEN <<Msg("failerror")>> ELSE text

\* button_callback with query.data = op, once code is stored: the part from
\* "operation = query.data" on.
\* The test without its last conjunct.
AsFileUnlessFailed(res) == ~IsEmptyText(res) /\ ~StartsWithFail(res)

\* if result and not result.startswith('❌') and not result.startswith('⚠️')
AsFile(res) == ~IsEmptyText(res) /\ ~StartsWithFail(res) /\ ~StartsWithWarn(res)

\* The delivery: reports are shown as text, a transform's result goes out
\* as a document or is shown as text.
Deliver(op, res) ==
    IF op \in Reports THEN shown' = res /\ file' = NoText
    ELSE IF AsFile(res) THEN shown' = <<Msg("ok")>> /\ file' = res
    ELSE shown' = EditMessage(res) /\ file' = NoText

\* The numbers code_stats printed, if it got as far as printing them.
StatsOf(op, tree) ==
    IF op = "stats" /\ tree.err = "none" THEN Counts(code, tree.body) ELSE NoCounts

\* result = func(code) and what follows, given the call's outcome.
Finish(op, t, r, call) ==
    /\ operation' = op
    /\ tool' = t
    /\ fixed_code' = r.code
    /\ fix_msg' = r.msg
    /\ raised' = call.exc
    /\ result' = call.text
    /\ stats' = StatsOf(op, ast_parse(r.code))
    /\ Deliver(op, call.text)
    /\ pc' = "done"
    /\ UNCHANGED <<code, legacy, sizes>>

Invoke(op, t, r) == Finish(op, t, r, Call(op, code, r, t))

Press(op, t) ==
    /\ pc = "ready"
    /\ ~IsEmptyText(code)
    /\ Invoke(op, t, fix_syntax_errors(code, legacy))

\* Values of query.data that are no key of operations.  The two menu
\* buttons, tryexcept_menu and back_main, are none of them: button_callback
\* answers those with a keyboard and returns before it reads the registry.
UnknownIds == {"format", "tryexcept"}

\* A lookup that falls back on remove_comments instead of answering
\* "Unknown operation".
UnknownOperationDefaulting ==
    /\ pc = "ready"
    /\ ~IsEmptyText(code)
    /\ \E op \in UnknownIds :
          Finish(op, "none", fix_syntax_errors(code, legacy),
                 Call("cleanup", code, fix_syntax_errors(code, legacy), "none"))

\* button_callback with query.data no key of operations, once code is
\* stored: func is None, "❌ Unknown operation" is shown, nothing is called.
UnknownOperation ==
    /\ pc = "ready"
    /\ ~IsEmptyText(code)
    /\ \E op \in UnknownIds : operation' = op
    /\ shown' = <<Msg("unknown")>>
    /\ pc' = "done"
    /\ UNCHANGED <<code, legacy, tool, fixed_code, fix_msg, raised, result, file, stats,
                   sizes>>

\* button_callback when user_data holds no code (or an empty file's).
NoCode ==
    /\ pc \in {"idle", "ready"}
    /\ code = NoText \/ IsEmptyText(code)
    /\ \E op \in Operations \cup UnknownIds : operation' = op
    /\ shown' = <<Msg("nocode")>>
    /\ pc' = "done"
    /\ UNCHANGED <<code, legacy, tool, fixed_code, fix_msg, raised, result, file, stats,
                   sizes>>

Upload == pc = "idle" /\ \E text \in Inputs : handle_document(text)

Cleanup == Press("cleanup", "none")

Beautify == \E t \in ToolStates : Press("beautify", t)

Black == \E t \in ToolStates : Press("black", t)

Imports == \E t \in ToolStates : Press("imports", t)

Minify == Press("minify", "none")

Docstrings == Press("docstrings", "none")

Validate == Press("validate", "none")

Stats == \E t \in ToolStates : Press("stats", t)

TryExceptBasic == Press("tryexcept_basic", "none")

TryExceptDetailed == Press("tryexcept_detailed", "none")

TryExceptLogging == Press("tryexcept_logging", "none")

TryExceptFunctions == Press("tryexcept_functions", "none")

Next ==
    \/ Upload
    \/ NoCode
    \/ Cleanup
    \/ Beautify
    \/ Black
    \/ Imports
    \/ Minify
    \/ Docstrings
    \/ Validate
    \/ Stats
    \/ TryExceptBasic
    \/ TryExceptDetailed
    \/ TryExceptLogging
    \/ TryExceptFunctions
    \/ UnknownOperation

Spec == Init /\ [][Next]_vars

\* ------------------------------------------------- the caption's figures
\* Longest text and longest result, in characters.
MaxSize == 200

\* The ratio taken over the result's length instead of the original's.
ReductionOfNew(o, n) ==
    IF n > 0 THEN [num |-> (o - n) * 100, den |-> n] ELSE [num |-> 0, den |-> 1]

\* reduction = ((original_size - new_size) / original_size * 100)
\*             if original_size > 0 else 0
\* as the fraction num / den; the float is the double nearest to it.
Reduction(o, n) ==
    IF o > 0 THEN [num |-> (o - n) * 100, den |-> o] ELSE [num |-> 0, den |-> 1]

\* reduction > 0
Positive(r) == r.num > 0

\* f"{reduction:.1f}" of a positive reduction, in tenths: the nearest tenth.
\* Exactly halfway between two tenths the double's rounding error decides,
\* so both are possible.
Format1f(r) ==
    LET q == (r.num * 10) \div r.den
        m == (r.num * 10) % r.den
    IN IF 2 * m < r.den THEN {q}
       ELSE IF 2 * m > r.den THEN {q + 1}
       ELSE {q, q + 1}

\* if operation == 'minify' and reduction > 0:
\*     caption += f"🗜️ Reduced by: {reduction:.1f}%"
ReducedBy(op, r) ==
    IF op = "minify" /\ Positive(r) THEN {<<t>> : t \in Format1f(r)} ELSE {<<>>}

\* A file of o characters arrives; what it says is left open.
Measure(o) ==
    /\ pc = "idle"
    /\ original_size' = o
    /\ pc' = "ready"
    /\ UNCHANGED <<code, legacy, operation, tool, fixed_code, fix_msg, raised, result,
                   shown, file, stats, new_size, reduced>>

\* button_callback, the branch that sends the document: a transform has
\* returned n characters of code for the stored o.
Caption(op, n) ==
    /\ pc = "ready"
    /\ original_size > 0
    /\ operation' = op
    /\ new_size' = n
    /\ reduced' \in ReducedBy(op, Reduction(original_size, n))
    /\ shown' = <<Msg("ok")>>
    /\ pc' = "done"
    /\ UNCHANGED <<code, legacy, tool, fixed_code, fix_msg, raised, result, file, stats,
                   original_size>>

\* button_callback on a stored text of no character: "if not code".
EmptyCode ==
    /\ pc = "ready"
    /\ original_size = 0
    /\ \E op \in Transforms : operation' = op
    /\ shown' = <<Msg("nocode")>>
    /\ pc' = "done"
    /\ UNCHANGED <<code, legacy, tool, fixed_code, fix_msg, raised, result, file, stats,
                   sizes>>

SizeInit == Init /\ ~legacy

ReceiveFile == \E o \in 0..MaxSize : Measure(o)

MinifyCaption == \E n \in 1..MaxSize : Caption("minify", n)

CleanupCaption == \E n \in 1..MaxSize : Caption("cleanup", n)

SizeNext ==
    \/ ReceiveFile
    \/ MinifyCaption
    \/ CleanupCaption
    \/ EmptyCode

SizeSpec == SizeInit /\ [][SizeNext]_vars

\* ------------------------------------------------------------- the claims
\* A registered operation has been invoked on the stored text.
Invoked == pc = "done" /\ fixed_code # NoText

\* The stored text compiles / the tree of a text exists.
Compiles(text) == compile(text) = "none"

Parses(text) == ast_parse(text).err = "none"

\* C1: the repair pass returns either the input without the advisory, or a
\* different text that compiles together with the advisory.
C1_RepairIsSafe ==
    Invoked =>
        \/ ~fix_msg /\ fixed_code = code
        \/ fix_msg /\ fixed_code # code /\ Compiles(fixed_code)

\* C1, its case: an invocation whose repair succeeded on a text that did not
\* compile.
C1_Repaired == Invoked /\ fix_msg /\ ~Compiles(code) /\ fixed_code # code

\* The failure text each exception is turned into.
FailureOf(op, exc) ==
    CASE exc = "ToolError" -> "failtool"
      [] exc = "SyntaxError" /\ op = "stats" -> "failstats"
      [] exc = "SyntaxError" -> "failsyntax"
      [] OTHER -> "failerror"

TreeTransforms == {"docstrings", "tryexcept_functions"}

\* The transforms that only edit lines.
LineTransforms == {"cleanup", "tryexcept_basic", "tryexcept_detailed", "tryexcept_logging"}

FailureShown == file = NoText /\ StartsWithFail(shown)

ReportShown == file = NoText /\ StartsWithWarn(shown)

CodeSent == file # NoText /\ shown = <<Msg("ok")>>

\* C4: a transform's result is delivered by its first line: a failure text
\* is shown, a text that starts with the warning sign is shown and never
\* sent as a file, any other text that is not empty is sent as a file; and
\* exactly one of the three happens.
C4_DeliveryByMarker ==
    Invoked /\ operation \in Transforms =>
        /\ StartsWithFail(result) => FailureShown /\ shown = result
        /\ StartsWithWarn(result) => ReportShown /\ shown = result
        /\ ~IsEmptyText(result) /\ ~StartsWithFail(result) /\ ~StartsWithWarn(result) =>
               CodeSent /\ file = result
        /\ Cardinality({d \in {"failure", "report", "code"} :
               \/ d = "failure" /\ FailureShown
               \/ d = "report" /\ ReportShown
               \/ d = "code" /\ CodeSent}) = 1

\* C4, its case: a formatter whose tool is not installed.
C4_ToolMissing ==
    /\ Invoked /\ operation \in Formatters /\ tool = "missing"
    /\ StartsWithWarn(result) /\ ReportShown

\* The operations C5 names.
ValidityPreserving ==
    {"docstrings", "tryexcept_basic", "tryexcept_detailed", "tryexcept_logging",
     "tryexcept_functions"}

\* C5: the output of remove_docstrings and of the four try/except variants
\* on a text that parses is a text that parses.
C5_OutputParses ==
    Invoked /\ Parses(code) /\ Compiles(code) /\ operation \in ValidityPreserving =>
        Parses(result)

\* C6: remove_docstrings and minify_code, applied to their own result, give
\* that result again.
C6_Idempotent ==
    Invoked /\ operation \in {"docstrings", "minify"} =>
        Apply(operation, result, legacy, tool) = result

\* C7: remove_comments, applied to its own result, gives that result again.
C7_Idempotent ==
    Invoked /\ operation = "cleanup" =>
        Apply("cleanup", result, legacy, tool) = result

\* C8: the repair pass gives the line "if x==1" of the documented example its
\* colon, and validate reports the repaired text as valid under the advisory.
C8_ExampleRepaired ==
    Invoked /\ code = MissingColonExample /\ operation = "validate" =>
        /\ fix_msg
        /\ fixed_code = [MissingColonExample EXCEPT ![2] = AddColon(@)]
        /\ result = <<Msg("advisory"), Msg("ok")>>

\* C8, where it breaks: validate on the documented example answers with the
\* syntax error, the text unrepaired.
C8_ExampleRejected ==
    /\ Invoked /\ code = MissingColonExample /\ operation = "validate"
    /\ ~fix_msg /\ fixed_code = code /\ StartsWithFail(result)

RECURSIVE StripStrings(_, _)
\* The statement list C9 describes: the first statement of the module and of
\* every definition goes when it is a string literal, and a definition left
\* empty gets a pass.
StripStrings(body, j) ==
    IF j > Len(body) THEN <<>>
    ELSE LET n == body[j]
             rest == StripStrings(body, j + 1)
         IN IF n.kind = "str" /\ FirstOfDefinition(body, j)
            THEN IF OnlyStatement(body, j)
                 THEN <<[n EXCEPT !.kind = "pass"]>> \o rest
                 ELSE rest
            ELSE IF n.kind = "str" /\ j = 1 THEN rest
            ELSE <<n>> \o rest

\* C9: remove_docstrings removes the first statement of the module and of
\* every function, async function and class exactly when it is a string
\* literal, keeps every other statement, and puts a pass into a definition
\* it emptied.
C9_StringsOfEveryScope ==
    Invoked /\ operation = "docstrings" /\ raised = "none" /\ ~fix_msg =>
        result = ast_unparse(StripStrings(ast_parse(code).body, 1))

\* C9, where it breaks: the module's docstring is still the result's first
\* line.
C9_ModuleDocstringKept ==
    /\ Invoked /\ operation = "docstrings" /\ raised = "none" /\ ~fix_msg
    /\ ast_parse(code).body[1].kind = "str"
    /\ result[1].kind = "str"

\* C10: a transform's result is the function's own text under the advisory
\* when the repair gave the advisory and that text starts with no failure
\* mark; otherwise it is the function's own text, or the failure text of
\* what it raised, with nothing in front.
C10_AdvisoryPrepended ==
    Invoked /\ operation \in Transforms =>
        LET out == Body(operation, fixed_code, tool)
        IN IF out.exc # "none"
           THEN StartsWithFail(result) /\ result[1].kind = FailureOf(operation, out.exc)
           ELSE IF fix_msg /\ ~StartsWithFail(out.text)
           THEN result = <<Msg("advisory"), Empty>> \o out.text
           ELSE result = out.text

\* C10, its case: remove_comments succeeding on a repaired text.
C10_Noted ==
    /\ Invoked /\ operation = "cleanup" /\ fix_msg
    /\ result[1].kind = "advisory"

\* C5, where it breaks: a comment wrapped in a try block that has no
\* statement.
C5_EmptyTryBlock ==
    /\ Invoked /\ operation = "tryexcept_basic" /\ Compiles(code)
    /\ \A i \in 1..Len(code) : code[i].kind = "comment"
    /\ ~Parses(result)

\* C6, where it breaks: the second of two constants goes in the second pass.
C6_SecondConstant ==
    /\ Invoked /\ operation = "docstrings" /\ ~fix_msg /\ raised = "none"
    /\ Len(code) = 3 /\ code[1].kind = "def" /\ code[2].kind = "str" /\ code[3].kind = "num"
    /\ Apply("docstrings", result, legacy, tool) # result

\* C7, where it breaks: the empty line under the advisory goes in the second
\* pass.
C7_AdvisoryCleaned ==
    /\ Invoked /\ operation = "cleanup" /\ fix_msg
    /\ Apply("cleanup", result, legacy, tool) = <<result[1]>> \o SubSeq(result, 3, Len(result))

\* C11: an identifier that is no key of the registry is answered with a
\* failure text; no function is called (no repair, no result, no exception,
\* no file) and the stored text stays as it is.
C11_UnknownRejected ==
    [][pc' = "done" /\ operation' \in UnknownIds =>
          /\ StartsWithFail(shown')
          /\ code' = code
          /\ UNCHANGED <<fixed_code, fix_msg, raised, result, file, stats>>]_vars

\* C11, its case: an unknown identifier pressed while a text is stored.
C11_UnknownPressed ==
    /\ pc = "done" /\ operation \in UnknownIds /\ ~IsEmptyText(code) /\ code # NoText
    /\ shown = <<Msg("unknown")>> /\ result = NoText /\ file = NoText

\* C12: stats counts the lines and the comment lines of the text as
\* submitted, and the function definitions (async ones among them), the
\* classes and the imports of the repaired text's tree at every depth; when
\* the repaired text does not parse, it answers with a failure report.
C12_StatsCounts ==
    Invoked /\ operation = "stats" =>
        IF Parses(fixed_code)
        THEN /\ ~StartsWithFail(result)
             /\ stats.lines = Len(splitlines(code))
             /\ stats.comments = CountComments(splitlines(code))
             /\ stats.functions = CountKinds(ast_parse(fixed_code).body, {"def", "adef"})
             /\ stats.classes = CountKinds(ast_parse(fixed_code).body, {"class"})
             /\ stats.imports = CountKinds(ast_parse(fixed_code).body, {"imp", "future"})
        ELSE StartsWithFail(result) /\ stats = NoCounts

\* C12, where it breaks: a text whose only function is an async one is
\* reported to have no function.
C12_AsyncNotCounted ==
    /\ Invoked /\ operation = "stats" /\ ~fix_msg /\ Parses(code)
    /\ \E i \in 1..Len(code) : code[i].kind = "adef"
    /\ stats.functions = 0

\* C13: the caption of a minified document gives (original - new) / original
\* as a percentage with one decimal, and only when it is positive; 200
\* characters minified to 120 give 40.0, and a text of no character gets no
\* caption at all.
C13_ReductionReported ==
    pc = "done" =>
        /\ original_size = 0 => reduced = <<>> /\ shown = <<Msg("nocode")>>
        /\ operation = "minify" /\ original_size > new_size =>
               /\ Len(reduced) = 1
               /\ 2 * reduced[1] * original_size
                      >= 2000 * (original_size - new_size) - original_size
               /\ 2 * reduced[1] * original_size
                      <= 2000 * (original_size - new_size) + original_size
        /\ operation # "minify" \/ original_size <= new_size => reduced = <<>>
        /\ operation = "minify" /\ original_size = 200 /\ new_size = 120 =>
               reduced = <<400>>

\* C13, its case: 200 characters minified to 120.
C13_FortyPercent ==
    /\ pc = "done" /\ operation = "minify"
    /\ original_size = 200 /\ new_size = 120 /\ reduced = <<400>>

\* C14: a transform's result is shown as a report in place of a file only
\* when its tool is not installed; a result made of the advisory and the
\* code of a transform that succeeded on the repaired text is sent as a file.
C14_RepairedCodeSent ==
    Invoked /\ operation \in Transforms =>
        /\ ReportShown => operation \in Formatters /\ tool = "missing"
        /\ fix_msg /\ raised = "none" /\ result[1].kind = "advisory" => CodeSent

\* C14, where it breaks: remove_comments succeeds on a repaired text and its
\* result is shown as a message, no file being sent.
C14_RepairedCodeShown ==
    /\ Invoked /\ operation = "cleanup" /\ fix_msg /\ raised = "none"
    /\ result[1].kind = "advisory"
    /\ ReportShown /\ shown = result /\ file = NoText

====
